---- MODULE Spec2Model ----
(***************************************************************************)
(* Model of the adaptive cleaning scheduler                                *)
(* (src/adaptive_cleaning_scheduler_complete.py, AdaptiveCleaningScheduler)*)
(* : the task catalog, the urgency engine, the daily assignment generator  *)
(* and the per-day snapshot kept in the daily-tasks file.                  *)
(*                                                                         *)
(* Representation choices                                                  *)
(*  - a datetime.date is its number of days since 2024-01-01 (a Monday);   *)
(*  - a "%Y-%m-%d" string is the tuple <<year, month, day>>; a malformed   *)
(*    string is a tuple that is not a calendar date;                       *)
(*  - a float is an exact rational [n, d] (d > 0) or Inf.  Every score the *)
(*    code compares is a correctly rounded quotient of small integers      *)
(*    times 3.0, 2.0, 1.0 or 0.5, and one list never mixes 3.0 with        *)
(*    another weight, so float order and rational order agree;             *)
(*  - names starting with the party emoji are written with "(party)".      *)
(***************************************************************************)
EXTENDS Integers, Sequences, FiniteSets, TLC

(***************************************************************************)
(* Calendar: datetime.date, strftime("%Y-%m-%d"), strptime, isocalendar    *)
(***************************************************************************)
BaseYear == 2024

LastYear == 2026

IsLeap(y) == (y % 4 = 0 /\ y % 100 # 0) \/ y % 400 = 0

DaysInYear(y) == IF IsLeap(y) THEN 366 ELSE 365

DaysInMonth(y, m) ==
    IF m = 2 THEN (IF IsLeap(y) THEN 29 ELSE 28)
    ELSE IF m \in {4, 6, 9, 11} THEN 30 ELSE 31

RECURSIVE DaysBeforeYear(_)
DaysBeforeYear(y) ==
    IF y <= BaseYear THEN 0 ELSE DaysBeforeYear(y - 1) + DaysInYear(y - 1)

RECURSIVE DaysBeforeMonth(_, _)
DaysBeforeMonth(y, m) ==
    IF m <= 1 THEN 0 ELSE DaysBeforeMonth(y, m - 1) + DaysInMonth(y, m - 1)

\* date(y, m, d) as a day number
DateOf(y, m, d) == DaysBeforeYear(y) + DaysBeforeMonth(y, m) + (d - 1)

RECURSIVE YearOf(_, _)
YearOf(n, y) ==
    IF n < DaysBeforeYear(y + 1) THEN y ELSE YearOf(n, y + 1)

RECURSIVE MonthOf(_, _, _)
MonthOf(n, y, m) ==
    IF n < DaysBeforeYear(y) + DaysBeforeMonth(y, m + 1) THEN m
    ELSE MonthOf(n, y, m + 1)

date_year(n) == YearOf(n, BaseYear)

date_month(n) == MonthOf(n, date_year(n), 1)

date_day(n) ==
    n - DaysBeforeYear(date_year(n))
      - DaysBeforeMonth(date_year(n), date_month(n)) + 1

\* date.strftime("%Y-%m-%d")
strftime(n) == <<date_year(n), date_month(n), date_day(n)>>

\* the strings datetime.strptime(s, "%Y-%m-%d") accepts
IsDateString(s) ==
    /\ Len(s) = 3
    /\ s[1] \in BaseYear..LastYear
    /\ s[2] \in 1..12
    /\ s[3] \in 1..DaysInMonth(s[1], s[2])

\* datetime.strptime(s, "%Y-%m-%d").date(), for an accepted string
strptime(s) == DateOf(s[1], s[2], s[3])

\* date.isoweekday(): Monday = 1 .. Sunday = 7
isoweekday(n) == (n % 7) + 1

DayNames ==
    <<"Monday", "Tuesday", "Wednesday", "Thursday", "Friday", "Saturday",
      "Sunday">>

\* date.strftime("%A")
strftime_A(n) == DayNames[isoweekday(n)]

\* number of ISO weeks of year y (a year has 53 when it starts on a
\* Thursday, or on a Wednesday and is a leap year)
IsoWeeksInYear(y) ==
    LET jan1 == isoweekday(DateOf(y, 1, 1))
    IN  IF jan1 = 4 \/ (jan1 = 3 /\ IsLeap(y)) THEN 53 ELSE 52

\* date.isocalendar()[1]
isocalendar_week(n) ==
    LET y   == date_year(n)
        doy == n - DaysBeforeYear(y) + 1
        w   == (doy - isoweekday(n) + 10) \div 7
    IN  IF w < 1 THEN (IF y - 1 < BaseYear THEN 52 ELSE IsoWeeksInYear(y - 1))
        ELSE IF w > IsoWeeksInYear(y) THEN 1
        ELSE w

(***************************************************************************)
(* Task catalog: _initialize_tasks                                         *)
(***************************************************************************)
frequency_thresholds ==
    [daily |-> 3, weekly |-> 10, biweekly |-> 18, monthly |-> 35,
     quarterly |-> 100]

\* a float weight as the exact rational n/d
priority_multipliers ==
    [priority1 |-> [n |-> 3, d |-> 1], priority2 |-> [n |-> 2, d |-> 1],
     priority3 |-> [n |-> 1, d |-> 1], priority4 |-> [n |-> 1, d |-> 2]]

tasks ==
    [priority1 |->
       [2min  |-> <<"Wipe bathroom sink",
                    "Check and clear clutter from hallway or entryway",
                    "Quick-sort mail",
                    "Wipe down bathroom faucet",
                    "Put shoes in closet or bin",
                    "Quick-wipe toilet seat and rim">>,
        5min  |-> <<"Unload dishwasher",
                    "Scoop cat litter",
                    "Clear and wipe kitchen counters",
                    "Pick up floor clutter in main rooms",
                    "Take out trash if full",
                    "Clear kitchen and bathroom floors of objects">>,
        15min |-> <<"Vacuum main living space",
                    "Load dishwasher and run if full",
                    "Wipe down stovetop",
                    "Empty and wipe bathroom trash if full",
                    "Clean coffee table">>],
     priority2 |->
       [2min  |-> <<"Replace kitchen towel",
                    "Tidy couch cushions and blanket",
                    "Water houseplants",
                    "Wipe down door handles",
                    "Refill toilet paper or soap">>,
        5min  |-> <<"Wipe down appliances",
                    "Quick clean one mirror",
                    "Tidy one shelf or counter",
                    "Change pillowcases",
                    "Clean out one fridge shelf">>,
        15min |-> <<"Mop kitchen and bathroom floors",
                    "Change bed sheets",
                    "Vacuum rugs",
                    "Wipe switches and doorknobs",
                    "Clean bathroom toilet and sink thoroughly">>],
     priority3 |->
       [2min  |-> <<"Dust light fixtures",
                    "Dust electronics",
                    "Straighten bathroom items",
                    "Spot check corners for cobwebs",
                    "Check expiration dates on fridge items">>,
        5min  |-> <<"Wipe cabinet fronts",
                    "Clean cat food area",
                    "Wipe fridge handle and exterior",
                    "Organize one drawer",
                    "Wipe baseboards in one room">>,
        15min |-> <<"Dust entire bedroom or office",
                    "Clean out medicine cabinet",
                    "Reorganize pantry zone",
                    "Clean behind microwave",
                    "Deep clean one small appliance">>],
     priority4 |->
       [15min    |-> <<"Vacuum under couch",
                       "Dust and rotate books",
                       "Wipe window tracks",
                       "Clean washing machine filter",
                       "Check fire alarm batteries">>,
        delegate |-> <<"Clean behind large appliances",
                       "Organize storage closet",
                       "Sort donation bin",
                       "Clean ceiling fan blades",
                       "Wash curtains or blinds">>]]

biweekly_tasks ==
    [weeks1_2 |->
       <<"Full shower/tub cleaning",
         "Complete toilet cleaning (bowl, tank, base, surrounding floor)",
         "Full kitchen counter and sink cleaning">>,
     weeks3_4 |->
       <<"Change bed linens (fitted sheet, pillowcases)",
         "Refrigerator clean-out of expired foods",
         "Kitchen sink deep clean including disposal and drain">>]

quarterly_focus ==
    <<"Bathroom deep clean (grout, fans, etc.)",
      "Kitchen deep clean (inside appliances, etc.)",
      "Living areas deep clean (under furniture, etc.)",
      "Bedroom deep clean (mattress, closets, etc.)">>

Range(s) == {s[i] : i \in DOMAIN s}

\* {}
EmptyDict == [x \in {} |-> 0]

\* one metadata entry, as the assignment loops build it
MetaEntry(frequency, priority) ==
    [frequency |-> frequency,
     threshold_days |-> frequency_thresholds[frequency],
     priority |-> priority,
     priority_multiplier |-> priority_multipliers[priority]]

\* the loops assign in this order, a later assignment replacing an earlier
\* one; the biweekly sets only fill names that have no entry yet
\* (the three names line 376 moves to biweekly are not in tasks)
task_metadata ==
    LET all(p, t, f) == [x \in Range(tasks[p][t]) |-> MetaEntry(f, p)]
        regular ==
            all("priority4", "delegate", "quarterly")
            @@ all("priority4", "15min", "quarterly")
            @@ all("priority3", "15min", "monthly")
            @@ all("priority3", "5min", "monthly")
            @@ all("priority3", "2min", "monthly")
            @@ all("priority2", "15min", "monthly")
            @@ all("priority2", "5min", "biweekly")
            @@ all("priority2", "2min", "weekly")
            @@ all("priority1", "15min", "biweekly")
            @@ all("priority1", "5min", "weekly")
            @@ all("priority1", "2min", "daily")
        biweekly ==
            [x \in Range(biweekly_tasks.weeks1_2)
                   \cup Range(biweekly_tasks.weeks3_4)
               |-> MetaEntry("biweekly", "priority1")]
        quarterly ==
            [x \in Range(quarterly_focus) |-> MetaEntry("quarterly", "priority4")]
    IN  quarterly @@ regular @@ biweekly

\* the names that start with the party emoji (str.startswith)
CelebrationMessages ==
    {"(party) No weekly focus tasks needed today!",
     "(party) No biweekly tasks needed today!",
     "(party) No monthly tasks needed today!",
     "(party) No quarterly focus needed today!"}

startswith_party(task_name) == task_name \in CelebrationMessages

(***************************************************************************)
(* Floats: exact rationals n/d (d > 0) and float('inf')                    *)
(***************************************************************************)
Inf == [inf |-> TRUE, n |-> 0, d |-> 1]

Num(n, d) == [inf |-> FALSE, n |-> n, d |-> d]

\* a >= b
Geq(a, b) ==
    IF a.inf THEN TRUE ELSE IF b.inf THEN FALSE ELSE a.n * b.d >= b.n * a.d

\* a > b
Gt(a, b) == ~Geq(b, a)

\* a < b
Lt(a, b) == ~Geq(a, b)

\* a == b
Eq(a, b) == Geq(a, b) /\ Geq(b, a)

\* max(a, b): Python returns the first argument unless the second is greater
PyMax(a, b) == IF Gt(b, a) THEN b ELSE a

\* a / k for an integer k > 0
DivInt(a, k) == IF a.inf THEN Inf ELSE Num(a.n, a.d * k)

\* a * b for a > 0 and a finite b > 0
Times(a, b) == IF a.inf THEN Inf ELSE Num(a.n * b.n, a.d * b.d)

(***************************************************************************)
(* Urgency engine.  task_history is the history the scheduler holds and    *)
(* now is datetime.date.today() at the moment of the call.                 *)
(***************************************************************************)
\* get_days_since_task_completion, a faulty variant that reads a never-done task
\* as done today
get_days_since_never_is_zero(task_history, now, task_name) ==
    IF task_name \notin DOMAIN task_history
       \/ "last_done" \notin DOMAIN task_history[task_name]
    THEN Num(0, 1)
    ELSE IF ~IsDateString(task_history[task_name].last_done) THEN Inf
    ELSE Num(now - strptime(task_history[task_name].last_done), 1)

\* get_days_since_task_completion, a faulty variant that reads a last_done
\* it cannot parse as a completion of today
get_days_since_unparsed_is_zero(task_history, now, task_name) ==
    IF task_name \notin DOMAIN task_history
       \/ "last_done" \notin DOMAIN task_history[task_name]
    THEN Inf
    ELSE IF ~IsDateString(task_history[task_name].last_done) THEN Num(0, 1)
    ELSE Num(now - strptime(task_history[task_name].last_done), 1)

get_days_since_task_completion(task_history, now, task_name) ==
    IF task_name \notin DOMAIN task_history
       \/ "last_done" \notin DOMAIN task_history[task_name]
    THEN Inf
    ELSE IF ~IsDateString(task_history[task_name].last_done) THEN Inf
    ELSE Num(now - strptime(task_history[task_name].last_done), 1)

\* the threshold is_task_due uses, a faulty variant whose default is the 10 of
\* get_task_urgency_score
due_threshold_default_10(task_name) ==
    IF task_name \in DOMAIN task_metadata
    THEN task_metadata[task_name].threshold_days
    ELSE 10

due_threshold(task_name) ==
    IF task_name \in DOMAIN task_metadata
    THEN task_metadata[task_name].threshold_days
    ELSE 7

is_task_due(task_history, now, task_name) ==
    IF startswith_party(task_name) THEN FALSE
    ELSE Geq(get_days_since_task_completion(task_history, now, task_name),
             Num(due_threshold(task_name), 1))

\* overdue_factor, a faulty variant without the 0.1 floor
overdue_factor_no_floor(days_since, threshold) == DivInt(days_since, threshold)

overdue_factor(days_since, threshold) ==
    PyMax(Num(1, 10), DivInt(days_since, threshold))

get_task_urgency_score(task_history, now, task_name) ==
    IF startswith_party(task_name) THEN Num(0, 1)
    ELSE
      LET days_since ==
              get_days_since_task_completion(task_history, now, task_name)
          known == task_name \in DOMAIN task_metadata
          threshold ==
              IF known THEN task_metadata[task_name].threshold_days ELSE 10
          priority_multiplier ==
              IF known THEN task_metadata[task_name].priority_multiplier
              ELSE [n |-> 1, d |-> 1]
      IN  Times(overdue_factor(days_since, threshold),
                Num(priority_multiplier.n, priority_multiplier.d))

was_task_done_recently(task_history, now, task_name, days_threshold) ==
    Lt(get_days_since_task_completion(task_history, now, task_name),
       Num(days_threshold, 1))

(***************************************************************************)
(* list.sort(key=..., reverse=True): a stable sort, so equal keys keep     *)
(* their order.  The list holds [item, key] pairs.                         *)
(***************************************************************************)
\* where pairs[i] lands: behind every pair with a greater key and behind
\* the earlier pairs with an equal key
\* a faulty variant that puts a pair behind the later pairs with an equal
\* key, as a sort of the reversed list would
sorted_position_ties_reversed(pairs, i) ==
    Cardinality({j \in DOMAIN pairs :
                   \/ Gt(pairs[j].key, pairs[i].key)
                   \/ (j > i /\ Eq(pairs[j].key, pairs[i].key))}) + 1

SortedPosition(pairs, i) ==
    Cardinality({j \in DOMAIN pairs :
                   \/ Gt(pairs[j].key, pairs[i].key)
                   \/ (j < i /\ Eq(pairs[j].key, pairs[i].key))}) + 1

\* the position of every pair
SortedPositions(pairs) ==
    [i \in 1..Len(pairs) |-> SortedPosition(pairs, i)] \o <<>>

\* the pairs, each put at its position
Placed(pairs, at) ==
    [r \in 1..Len(pairs) |-> pairs[CHOOSE i \in DOMAIN pairs : at[i] = r]]
      \o <<>>

\* a faulty sort that leaves the list in its original order
sort_reverse_skipped(pairs) == pairs

sort_reverse(pairs) == Placed(pairs, SortedPositions(pairs))

\* [item for item, _ in pairs]; the concatenation makes the result a tuple
Items(pairs) == [i \in 1..Len(pairs) |-> pairs[i].item] \o <<>>

\* [x for x in s if x in keep]
Filter(s, keep) == LET Test(x) == x \in keep IN SelectSeq(s, Test)

\* s[:k]
Take(s, k) == SubSeq(s, 1, IF k < Len(s) THEN k ELSE Len(s))

\* the tasks of s sorted by urgency score, most urgent first
ByUrgency(task_history, now, s) ==
    Items(sort_reverse(
        [i \in 1..Len(s) |->
           [item |-> s[i],
            key |-> get_task_urgency_score(task_history, now, s[i])]]
          \o <<>>))

(***************************************************************************)
(* Fields __init__ derives from self.current_date                          *)
(***************************************************************************)
focus_rotation == <<"Kitchen", "Bathroom", "Living Area", "Bedroom/Pet">>

day_of_week(current_date) == strftime_A(current_date)

week_of_year(current_date) == isocalendar_week(current_date)

\* self.current_focus, a faulty variant that indexes the rotation by the
\* week number itself
current_focus_from_week_zero(current_date) ==
    focus_rotation[(week_of_year(current_date) % Len(focus_rotation)) + 1]

current_focus(current_date) ==
    focus_rotation[((week_of_year(current_date) - 1) % Len(focus_rotation)) + 1]

\* self.current_quarter, a faulty variant that counts four months to a
\* quarter
current_quarter_of_four_months(current_date) ==
    ((date_month(current_date) - 1) \div 4) + 1

current_quarter(current_date) == ((date_month(current_date) - 1) \div 3) + 1

(***************************************************************************)
(* Daily assignment generator                                              *)
(***************************************************************************)
essential_tasks ==
    [Monday    |-> "Clear and wipe kitchen counters",
     Tuesday   |-> "Pick up floor clutter in all rooms",
     Wednesday |-> "Take out trash and recycling",
     Thursday  |-> "Clean coffee table",
     Friday    |-> "Wipe bathroom sink and toilet quick-clean",
     Saturday  |-> "Vacuum main living space",
     Sunday    |-> "Quick-sort mail and clear entryway"]

num_bonus_tasks(energy_level) ==
    IF energy_level = "yellow" THEN 4
    ELSE IF energy_level = "green" THEN 8
    ELSE 2

\* _generate_daily_tasks, a faulty variant that does not skip the day's
\* essential task among the bonus candidates
generate_daily_keeps_essential(task_history, now, current_date, energy_level) ==
    LET essential_task == essential_tasks[day_of_week(current_date)]
        pool == tasks.priority1["2min"] \o tasks.priority1["5min"]
                  \o tasks.priority1["15min"]
        potential_tasks ==
            Filter(pool, {t \in Range(pool) :
                            is_task_due(task_history, now, t)})
    IN  <<essential_task>>
          \o Take(ByUrgency(task_history, now, potential_tasks),
                  num_bonus_tasks(energy_level))

_generate_daily_tasks(task_history, now, current_date, energy_level) ==
    LET essential_task == essential_tasks[day_of_week(current_date)]
        pool == tasks.priority1["2min"] \o tasks.priority1["5min"]
                  \o tasks.priority1["15min"]
        potential_tasks ==
            Filter(pool, {t \in Range(pool) :
                            /\ t # essential_task
                            /\ is_task_due(task_history, now, t)})
    IN  <<essential_task>>
          \o Take(ByUrgency(task_history, now, potential_tasks),
                  num_bonus_tasks(energy_level))

weekly_focus_lists ==
    [x \in Range(focus_rotation) |->
       IF x = "Kitchen" THEN
         <<"Wipe down kitchen counters completely",
           "Quick-clean inside microwave with damp cloth",
           "Wipe refrigerator handles and most-touched shelves">>
       ELSE IF x = "Bathroom" THEN
         <<"Clean bathroom sink, faucet, and immediate counter area",
           "Scrub toilet bowl and wipe exterior surfaces",
           "Replace bathroom hand/face towels">>
       ELSE IF x = "Living Area" THEN
         <<"Quick-tidy living room sitting area",
           "Gather and put away items that belong in another room",
           "Clear and wipe dining/coffee table completely">>
       ELSE
         <<"Organize nightstand for better function",
           "Sort through one drawer of clothing",
           "Clean litter box completely">>]

\* _generate_weekly_focus_tasks, a faulty variant that ranks the three tasks
\* of the focus without dropping those not due
weekly_focus_without_due_filter(task_history, now, current_date, energy_level) ==
    LET candidates == weekly_focus_lists[current_focus(current_date)]
        ranked == ByUrgency(task_history, now, candidates)
    IN  IF energy_level = "red" THEN Take(ranked, 1)
        ELSE IF energy_level = "yellow" THEN Take(ranked, 2)
        ELSE ranked

\* _generate_weekly_focus_tasks, a faulty variant that gives a red day the
\* least urgent task
weekly_focus_red_least_urgent(task_history, now, current_date, energy_level) ==
    LET candidates == weekly_focus_lists[current_focus(current_date)]
        due == Filter(candidates,
                      {t \in Range(candidates) :
                         is_task_due(task_history, now, t)})
        ranked == ByUrgency(task_history, now, due)
    IN  IF due = <<>> THEN <<"(party) No weekly focus tasks needed today!">>
        ELSE IF energy_level = "red" THEN <<ranked[Len(ranked)]>>
        ELSE IF energy_level = "yellow" THEN Take(ranked, 2)
        ELSE ranked

_generate_weekly_focus_tasks(task_history, now, current_date, energy_level) ==
    LET candidates == weekly_focus_lists[current_focus(current_date)]
        due == Filter(candidates,
                      {t \in Range(candidates) :
                         is_task_due(task_history, now, t)})
        ranked == ByUrgency(task_history, now, due)
    IN  IF due = <<>> THEN <<"(party) No weekly focus tasks needed today!">>
        ELSE IF energy_level = "red" THEN Take(ranked, 1)
        ELSE IF energy_level = "yellow" THEN Take(ranked, 2)
        ELSE ranked

\* the candidates of get_monthly_task, in catalog order
monthly_pool ==
    tasks.priority1["2min"] \o tasks.priority1["5min"] \o tasks.priority1["15min"]
      \o tasks.priority2["2min"] \o tasks.priority2["5min"]
      \o tasks.priority2["15min"]
      \o tasks.priority3["2min"] \o tasks.priority3["5min"]
      \o tasks.priority3["15min"]

\* self.daily_task_assignments[today_str].get("monthly_task", [])
stored_monthly_task(bundle) ==
    IF "monthly_task" \in DOMAIN bundle THEN bundle.monthly_task ELSE <<>>

\* the fresh branch of get_monthly_task, a faulty variant that does not cut
\* the list to five tasks
fresh_monthly_uncapped(task_history, now) ==
    LET stale == Filter(monthly_pool,
                        {t \in Range(monthly_pool) :
                           ~was_task_done_recently(task_history, now, t, 20)})
        ranked ==
            Items(sort_reverse(
                [i \in 1..Len(stale) |->
                   [item |-> stale[i],
                    key |-> get_days_since_task_completion(task_history, now,
                                                           stale[i])]]
                  \o <<>>))
    IN  IF stale = <<>> THEN <<"(party) No monthly tasks needed today!">>
        ELSE ranked

\* the fresh branch of get_monthly_task (lines 678-690)
fresh_monthly_tasks(task_history, now) ==
    LET stale == Filter(monthly_pool,
                        {t \in Range(monthly_pool) :
                           ~was_task_done_recently(task_history, now, t, 20)})
        ranked ==
            Items(sort_reverse(
                [i \in 1..Len(stale) |->
                   [item |-> stale[i],
                    key |-> get_days_since_task_completion(task_history, now,
                                                           stale[i])]]
                  \o <<>>))
    IN  IF stale = <<>> THEN <<"(party) No monthly tasks needed today!">>
        ELSE Take(ranked, 5)

\* self.daily_task_assignments as [set, value]: set is
\* hasattr(self, 'daily_task_assignments')
NoAttribute == [set |-> FALSE, value |-> EmptyDict]

Attribute(value) == [set |-> TRUE, value |-> value]

\* assignments is self.daily_task_assignments as [set, value]
get_monthly_task(task_history, now, current_date, assignments) ==
    IF assignments.set /\ strftime(current_date) \in DOMAIN assignments.value
    THEN stored_monthly_task(assignments.value[strftime(current_date)])
    ELSE fresh_monthly_tasks(task_history, now)

get_quarterly_task(task_history, now, current_date) ==
    LET quarterly_task == quarterly_focus[current_quarter(current_date)]
    IN  IF is_task_due(task_history, now, quarterly_task) THEN quarterly_task
        ELSE "(party) No quarterly focus needed today!"

variety_pool ==
    tasks.priority2["2min"] \o tasks.priority2["5min"] \o tasks.priority2["15min"]
      \o tasks.priority3["2min"] \o tasks.priority3["5min"]
      \o tasks.priority3["15min"]

\* the biweekly list of _generate_todays_tasks, a faulty variant that takes
\* the first pair-list in odd weeks and the second in even weeks
generate_biweekly_odd_first(task_history, now, current_date) ==
    LET candidates ==
            IF week_of_year(current_date) % 2 = 1 THEN biweekly_tasks.weeks1_2
            ELSE biweekly_tasks.weeks3_4
        due == Filter(candidates,
                      {t \in Range(candidates) :
                         is_task_due(task_history, now, t)})
    IN  ByUrgency(task_history, now,
                  IF due = <<>>
                  THEN <<"(party) No biweekly tasks needed today!">>
                  ELSE due)

\* lines 99-112 of _generate_todays_tasks
generate_biweekly_tasks(task_history, now, current_date) ==
    LET candidates ==
            IF week_of_year(current_date) % 2 = 0 THEN biweekly_tasks.weeks1_2
            ELSE biweekly_tasks.weeks3_4
        due == Filter(candidates,
                      {t \in Range(candidates) :
                         is_task_due(task_history, now, t)})
    IN  ByUrgency(task_history, now,
                  IF due = <<>>
                  THEN <<"(party) No biweekly tasks needed today!">>
                  ELSE due)

\* the variety list of _generate_todays_tasks, a faulty variant that ranks
\* the whole pool without dropping the tasks that are not due
generate_variety_unfiltered(task_history, now) ==
    Take(ByUrgency(task_history, now, variety_pool), 10)

\* the variety list of _generate_todays_tasks, a faulty variant that takes
\* the first ten due tasks in catalog order without ranking them
generate_variety_first_ten(task_history, now) ==
    Take(Filter(variety_pool,
                {t \in Range(variety_pool) :
                   is_task_due(task_history, now, t)}),
         10)

\* lines 120-130 of _generate_todays_tasks
generate_variety_tasks(task_history, now) ==
    Take(ByUrgency(task_history, now,
                   Filter(variety_pool,
                          {t \in Range(variety_pool) :
                             is_task_due(task_history, now, t)})),
         10)

EnergyLevels == {"red", "yellow", "green"}

_generate_todays_tasks(task_history, now, current_date, assignments) ==
    [date |-> strftime(current_date),
     day_of_week |-> day_of_week(current_date),
     daily_tasks |->
       [e \in EnergyLevels |->
          _generate_daily_tasks(task_history, now, current_date, e)],
     weekly_tasks |->
       [e \in EnergyLevels |->
          _generate_weekly_focus_tasks(task_history, now, current_date, e)],
     biweekly_tasks |-> generate_biweekly_tasks(task_history, now, current_date),
     monthly_tasks |->
       get_monthly_task(task_history, now, current_date, assignments),
     quarterly_task |-> get_quarterly_task(task_history, now, current_date),
     variety_tasks |-> generate_variety_tasks(task_history, now)]

(***************************************************************************)
(* Recommendations.  assignments is self.daily_task_assignments, a dict.   *)
(***************************************************************************)
get_daily_tasks(assignments, task_history, now, current_date, energy_level) ==
    IF strftime(current_date) \in DOMAIN assignments
    THEN assignments[strftime(current_date)].daily_tasks[energy_level]
    ELSE _generate_daily_tasks(task_history, now, current_date, energy_level)

get_weekly_focus_tasks(assignments, task_history, now, current_date, energy_level) ==
    IF strftime(current_date) \in DOMAIN assignments
    THEN assignments[strftime(current_date)].weekly_tasks[energy_level]
    ELSE _generate_weekly_focus_tasks(task_history, now, current_date,
                                      energy_level)

\* the fallback sorts the due tasks and keeps four of them
get_biweekly_tasks(assignments, task_history, now, current_date) ==
    IF strftime(current_date) \in DOMAIN assignments
    THEN assignments[strftime(current_date)].biweekly_tasks
    ELSE Take(generate_biweekly_tasks(task_history, now, current_date), 4)

\* lines 721-727: the stored monthly_tasks, or get_monthly_task when that
\* list is empty or absent
recommended_monthly_tasks(assignments, task_history, now, current_date) ==
    IF strftime(current_date) \in DOMAIN assignments
       /\ assignments[strftime(current_date)].monthly_tasks # <<>>
    THEN assignments[strftime(current_date)].monthly_tasks
    ELSE get_monthly_task(task_history, now, current_date,
                          Attribute(assignments))

\* line 729
recommended_variety_tasks(assignments, current_date) ==
    IF strftime(current_date) \in DOMAIN assignments
    THEN assignments[strftime(current_date)].variety_tasks
    ELSE <<>>

\* get_personalized_recommendations, a faulty variant that gives the
\* biweekly list at every energy level
recommendations_biweekly_for_all(assignments, task_history, now, current_date, energy_level) ==
    [daily_tasks |->
       get_daily_tasks(assignments, task_history, now, current_date,
                       energy_level),
     weekly_tasks |->
       get_weekly_focus_tasks(assignments, task_history, now, current_date,
                              energy_level),
     biweekly_tasks |->
       get_biweekly_tasks(assignments, task_history, now, current_date)]
    @@ (IF energy_level = "green"
        THEN [monthly_tasks |->
                recommended_monthly_tasks(assignments, task_history, now,
                                          current_date),
              variety_tasks |->
                recommended_variety_tasks(assignments, current_date),
              quarterly_focus |->
                get_quarterly_task(task_history, now, current_date)]
        ELSE EmptyDict)

\* the task fields of the dict get_personalized_recommendations returns
get_personalized_recommendations(assignments, task_history, now, current_date, energy_level) ==
    [daily_tasks |->
       get_daily_tasks(assignments, task_history, now, current_date,
                       energy_level),
     weekly_tasks |->
       get_weekly_focus_tasks(assignments, task_history, now, current_date,
                              energy_level)]
    @@ (IF energy_level # "red"
        THEN [biweekly_tasks |->
                get_biweekly_tasks(assignments, task_history, now,
                                   current_date)]
        ELSE EmptyDict)
    @@ (IF energy_level = "green"
        THEN [monthly_tasks |->
                recommended_monthly_tasks(assignments, task_history, now,
                                          current_date),
              variety_tasks |->
                recommended_variety_tasks(assignments, current_date),
              quarterly_focus |->
                get_quarterly_task(task_history, now, current_date)]
        ELSE EmptyDict)

(***************************************************************************)
(* Bounds of the model                                                     *)
(***************************************************************************)
\* completions, midnights and file losses in one behaviour
MaxEvents == 2

\* the dates of the first construction: Sunday 2024-06-16 (the last day of
\* ISO week 24, second quarter) and Tuesday 2024-12-31 (ISO week 1 of 2025,
\* the last day of the fourth quarter)
StartDates == {DateOf(2024, 6, 16), DateOf(2024, 12, 31)}

(***************************************************************************)
(* State                                                                   *)
(***************************************************************************)
VARIABLES
    today,                  \* datetime.date.today(), the wall-clock date
    current_date,           \* self.current_date, set by __init__
    task_history,           \* self.task_history
    daily_task_assignments, \* self.daily_task_assignments
    history_file,           \* the history file: [readable, content]
    daily_tasks_file,       \* the daily-tasks file: [readable, content]
    last_op,                \* the operation that led to this state
    file_writes,            \* writes of the daily-tasks file by last_op
    generator_calls,        \* _generate_todays_tasks calls by last_op
    cache_hit,              \* last_op found today's bundle in the file
    n_events,               \* completions, midnights and losses so far
    airtable_records,       \* the rows of the Airtable table task_history
    update_call             \* the last update_task_history call and its result

vars ==
    <<today, current_date, task_history, daily_task_assignments, history_file,
      daily_tasks_file, last_op, file_writes, generator_calls, cache_hit,
      n_events, airtable_records, update_call>>

\* no update_task_history call yet
NoCall == [username |-> "", task_name |-> "", read |-> "", returned |-> FALSE]

Unreadable == [readable |-> FALSE, content |-> EmptyDict]

\* a file json.load reads: strings, lists and dicts of them, which
\* json.dump and json.load return as they were
File(content) == [readable |-> TRUE, content |-> content]

\* dict without key k
Without(dict, k) == [x \in DOMAIN dict \ {k} |-> dict[x]]

\* dict with dict[k] = v
With(dict, k, v) == (k :> v) @@ dict

\* _load_task_history: an unreadable file reads as {}
_load_task_history(file) == IF file.readable THEN file.content ELSE EmptyDict

\* a faulty variant of a miss that stores today's bundle alone
saved_today_alone(content, today_str, bundle) ==
    [result |-> With(EmptyDict, today_str, bundle),
     file |-> File(With(EmptyDict, today_str, bundle)),
     writes |-> 1, generated |-> 1, hit |-> FALSE]

\* what a miss leaves: the bundle stored under today_str, in the dict
\* returned and in the file
Saved(content, today_str, bundle) ==
    [result |-> With(content, today_str, bundle),
     file |-> File(With(content, today_str, bundle)),
     writes |-> 1, generated |-> 1, hit |-> FALSE]

\* a faulty variant of _load_or_generate_daily_tasks that regenerates on every call
load_or_generate_always_generates(file, history, now, date, assignments) ==
    Saved(IF file.readable THEN file.content ELSE EmptyDict, strftime(date),
          _generate_todays_tasks(history, now, date, assignments))

\* _load_or_generate_daily_tasks (lines 62-85): the dict it returns, the
\* file it leaves, and how often it wrote the file and called the generator
_load_or_generate_daily_tasks(file, history, now, date, assignments) ==
    IF file.readable /\ strftime(date) \in DOMAIN file.content
    THEN [result |-> file.content, file |-> file,
          writes |-> 0, generated |-> 0, hit |-> TRUE]
    ELSE Saved(IF file.readable THEN file.content ELSE EmptyDict,
               strftime(date),
               _generate_todays_tasks(history, now, date, assignments))

(***************************************************************************)
(* Operations                                                              *)
(***************************************************************************)
\* the fields a construction sets, from what it loaded
Constructed(now, history, loaded) ==
    [current_date |-> now, task_history |-> history,
     daily_task_assignments |-> loaded.result,
     daily_tasks_file |-> loaded.file,
     writes |-> loaded.writes, generated |-> loaded.generated,
     hit |-> loaded.hit]

\* __init__ (lines 25-47)
construct(now, hfile, dfile) ==
    Constructed(now, _load_task_history(hfile),
                _load_or_generate_daily_tasks(dfile, _load_task_history(hfile),
                                              now, now, NoAttribute))

\* what reset_todays_tasks leaves, from what its reload produced
ResetDone(first_write, history, hfile, loaded) ==
    [daily_task_assignments |-> loaded.result,
     daily_tasks_file |-> loaded.file,
     task_history |-> history, history_file |-> hfile,
     writes |-> first_write + loaded.writes,
     generated |-> loaded.generated]

\* a faulty variant of reset_todays_tasks that also wipes the completion history
reset_wipes_history(dfile, hfile, history, now, date, assignments) ==
    ResetDone(IF dfile.readable THEN 1 ELSE 0, EmptyDict, File(EmptyDict),
              _load_or_generate_daily_tasks(
                  IF dfile.readable
                  THEN File(Without(dfile.content, strftime(date)))
                  ELSE dfile,
                  EmptyDict, now, date, Attribute(assignments)))

\* a faulty variant of reset_todays_tasks that drops today's entry without
\* saving, so that the file is written once
reset_single_write(dfile, hfile, history, now, date, assignments) ==
    ResetDone(0, history, hfile,
              _load_or_generate_daily_tasks(
                  IF dfile.readable
                  THEN File(Without(dfile.content, strftime(date)))
                  ELSE dfile,
                  history, now, date, Attribute(assignments)))

\* reset_todays_tasks (lines 1096-1120).  A readable file is rewritten
\* without today's entry, and then _load_or_generate_daily_tasks runs while
\* self.daily_task_assignments still holds the old dict; an unreadable file
\* goes straight to _load_or_generate_daily_tasks.
reset_todays_tasks(dfile, hfile, history, now, date, assignments) ==
    ResetDone(IF dfile.readable THEN 1 ELSE 0, history, hfile,
              _load_or_generate_daily_tasks(
                  IF dfile.readable
                  THEN File(Without(dfile.content, strftime(date)))
                  ELSE dfile,
                  history, now, date, Attribute(assignments)))

\* mark_task_completed, a faulty variant that stores 1 as the count
mark_task_completed_count_one(history, date, task_name, notes) ==
    LET old == IF task_name \in DOMAIN history THEN history[task_name]
               ELSE [completion_count |-> 0, completion_dates |-> <<>>]
        dates == IF "completion_dates" \in DOMAIN old
                 THEN old.completion_dates ELSE <<>>
    IN  With(history, task_name,
             [last_done |-> strftime(date),
              completion_count |-> 1,
              completion_dates |->
                Append(dates, [date |-> strftime(date), notes |-> notes])])

\* mark_task_completed (lines 571-595): the history it leaves
mark_task_completed(history, date, task_name, notes) ==
    LET old == IF task_name \in DOMAIN history THEN history[task_name]
               ELSE [completion_count |-> 0, completion_dates |-> <<>>]
        count == IF "completion_count" \in DOMAIN old
                 THEN old.completion_count ELSE 0
        dates == IF "completion_dates" \in DOMAIN old
                 THEN old.completion_dates ELSE <<>>
    IN  With(history, task_name,
             [last_done |-> strftime(date),
              completion_count |-> count + 1,
              completion_dates |->
                Append(dates, [date |-> strftime(date), notes |-> notes])])

(***************************************************************************)
(* Histories the first construction may find in the history file           *)
(***************************************************************************)
KnownTasks ==
    monthly_pool \o tasks.priority4["15min"] \o tasks.priority4.delegate
      \o weekly_focus_lists["Kitchen"] \o weekly_focus_lists["Bathroom"]
      \o weekly_focus_lists["Living Area"] \o weekly_focus_lists["Bedroom/Pet"]
      \o biweekly_tasks.weeks1_2 \o biweekly_tasks.weeks3_4 \o quarterly_focus

\* the record one completion on day d leaves
DoneOn(d) ==
    [last_done |-> strftime(d), completion_count |-> 1,
     completion_dates |-> <<[date |-> strftime(d), notes |-> ""]>>]

\* every known task completed on the start date
AllDoneToday(d0) == [t \in Range(KnownTasks) |-> DoneOn(d0)]

\* every known task completed once, the i-th of them (11 * i) mod 41 days
\* before the start date
Spread(d0) ==
    [t \in Range(KnownTasks) |->
       DoneOn(d0 - ((11 * (CHOOSE i \in DOMAIN KnownTasks : KnownTasks[i] = t))
                      % 41))]

\* records as a hand-edited or imported file holds them: an empty and a
\* malformed last_done, a record without last_done, a date in the future,
\* and a quarterly focus one day short of its threshold
Damaged(d0) ==
    ("Wipe bathroom sink" :>
        [last_done |-> <<>>, completion_count |-> 0, completion_dates |-> <<>>])
    @@ ("Quick-sort mail" :>
        [last_done |-> <<2024, 2, 30>>, completion_count |-> 1,
         completion_dates |-> <<>>])
    @@ ("Scoop cat litter" :>
        [completion_count |-> 1, completion_dates |-> <<>>])
    @@ ("Unload dishwasher" :> DoneOn(d0 + 2))
    @@ [t \in {quarterly_focus[current_quarter(d0)]} |-> DoneOn(d0 - 99)]
    @@ [t \in Range(weekly_focus_lists[current_focus(d0)]) |-> DoneOn(d0 - 8)]

InitHistories(d0) == {EmptyDict, AllDoneToday(d0), Spread(d0), Damaged(d0)}

\* the mark_task_completed calls of the model, as <<task_name, notes>>: the
\* quarterly focus (a catalog task) and a weekly focus task (no catalog
\* entry)
MarkCalls(date) ==
    {<<quarterly_focus[current_quarter(date)], "">>,
     <<weekly_focus_lists[current_focus(date)][1], "quick pass">>}

(***************************************************************************)
(* Specification                                                           *)
(***************************************************************************)
\* the first run: a history file, no daily-tasks file, then __init__
Init ==
    \E d0 \in StartDates : \E h \in InitHistories(d0) :
      \E c \in {construct(d0, File(h), Unreadable)} :
          /\ today = d0
          /\ current_date = c.current_date
          /\ task_history = c.task_history
          /\ daily_task_assignments = c.daily_task_assignments
          /\ history_file = File(h)
          /\ daily_tasks_file = c.daily_tasks_file
          /\ last_op = "init"
          /\ file_writes = c.writes
          /\ generator_calls = c.generated
          /\ cache_hit = c.hit
          /\ n_events = 0
          /\ airtable_records = <<>>
          /\ update_call = NoCall

\* AdaptiveCleaningScheduler(): the app builds a new scheduler on every run
Construct ==
    \E c \in {construct(today, history_file, daily_tasks_file)} :
        /\ current_date' = c.current_date
        /\ task_history' = c.task_history
        /\ daily_task_assignments' = c.daily_task_assignments
        /\ daily_tasks_file' = c.daily_tasks_file
        /\ last_op' = "init"
        /\ file_writes' = c.writes
        /\ generator_calls' = c.generated
        /\ cache_hit' = c.hit
        /\ UNCHANGED <<today, history_file, n_events>>
        /\ UNCHANGED <<airtable_records, update_call>>

Reset ==
    \E r \in {reset_todays_tasks(daily_tasks_file, history_file, task_history,
                                  today, current_date,
                                  daily_task_assignments)} :
        /\ daily_task_assignments' = r.daily_task_assignments
        /\ daily_tasks_file' = r.daily_tasks_file
        /\ task_history' = r.task_history
        /\ history_file' = r.history_file
        /\ last_op' = "reset"
        /\ file_writes' = r.writes
        /\ generator_calls' = r.generated
        /\ cache_hit' = FALSE
        /\ UNCHANGED <<today, current_date, n_events>>
        /\ UNCHANGED <<airtable_records, update_call>>

\* mark_task_completed, then _save_task_history
MarkCompleted ==
    /\ n_events < MaxEvents
    /\ \E call \in MarkCalls(current_date) :
         \E h \in {mark_task_completed(task_history, current_date,
                                        call[1], call[2])} :
             /\ task_history' = h
             /\ history_file' = File(h)
    /\ n_events' = n_events + 1
    /\ last_op' = "mark"
    /\ file_writes' = 0
    /\ generator_calls' = 0
    /\ cache_hit' = FALSE
    /\ UNCHANGED <<today, current_date, daily_task_assignments,
                   daily_tasks_file>>
    /\ UNCHANGED <<airtable_records, update_call>>

\* midnight passes
AdvanceDay ==
    /\ n_events < MaxEvents
    /\ today' = today + 1
    /\ n_events' = n_events + 1
    /\ last_op' = "tick"
    /\ file_writes' = 0
    /\ generator_calls' = 0
    /\ cache_hit' = FALSE
    /\ UNCHANGED <<current_date, task_history, daily_task_assignments,
                   history_file, daily_tasks_file>>
    /\ UNCHANGED <<airtable_records, update_call>>

\* a file that json.load rejects: what was stored is still in it, damaged
Corrupt(file) == [readable |-> FALSE, content |-> file.content]

\* the history file is deleted or corrupted
LoseHistoryFile ==
    /\ n_events < MaxEvents
    /\ history_file.readable
    /\ history_file' \in {Unreadable, Corrupt(history_file)}
    /\ n_events' = n_events + 1
    /\ last_op' = "lose"
    /\ file_writes' = 0
    /\ generator_calls' = 0
    /\ cache_hit' = FALSE
    /\ UNCHANGED <<today, current_date, task_history, daily_task_assignments,
                   daily_tasks_file>>
    /\ UNCHANGED <<airtable_records, update_call>>

\* the daily-tasks file is deleted or corrupted
LoseDailyTasksFile ==
    /\ n_events < MaxEvents
    /\ daily_tasks_file.readable
    /\ daily_tasks_file' = Unreadable
    /\ n_events' = n_events + 1
    /\ last_op' = "lose"
    /\ file_writes' = 0
    /\ generator_calls' = 0
    /\ cache_hit' = FALSE
    /\ UNCHANGED <<today, current_date, task_history, daily_task_assignments,
                   history_file>>
    /\ UNCHANGED <<airtable_records, update_call>>

Next ==
    \/ Construct
    \/ Reset
    \/ MarkCompleted
    \/ AdvanceDay
    \/ LoseHistoryFile
    \/ LoseDailyTasksFile

Spec == Init /\ [][Next]_vars

(***************************************************************************)
(* Snapshot cache: _load_or_generate_daily_tasks and reset_todays_tasks    *)
(***************************************************************************)
\* the key of self.current_date in the daily-tasks dict
today_str == strftime(current_date)

\* the file holds a bundle for the date a construction would ask for
StoredForToday ==
    daily_tasks_file.readable /\ strftime(today) \in DOMAIN daily_tasks_file.content

\* C1: a construction that finds the date's bundle in the file returns the
\* file's dict unchanged, leaves the file alone and does not call the
\* generator; and a construction that directly follows a construction
\* returns the dict the first one returned.
C1_HitReturnsStoredBundle ==
    [][last_op' = "init" =>
         /\ StoredForToday =>
              /\ daily_task_assignments' = daily_tasks_file.content
              /\ daily_tasks_file' = daily_tasks_file
              /\ generator_calls' = 0
         /\ last_op = "init" =>
              /\ daily_task_assignments' = daily_task_assignments
              /\ generator_calls' = 0]_vars

\* a construction has found the bundle an earlier run stored
C1_Witness ==
    /\ last_op = "init"
    /\ cache_hit
    /\ generator_calls = 0
    /\ daily_task_assignments = daily_tasks_file.content

\* C2: the bundle reset_todays_tasks stores is the bundle the generator
\* produces from the current history with no stored bundle at hand, in
\* every field.
C2_ResetBundleIsFresh ==
    last_op = "reset" =>
        daily_tasks_file.content[today_str] =
            _generate_todays_tasks(task_history, today, current_date,
                                   NoAttribute)

\* C3: reset_todays_tasks leaves the history in memory and the history file
\* exactly as they were.
C3_ResetKeepsHistory ==
    [][last_op' = "reset" =>
         /\ task_history' = task_history
         /\ history_file' = history_file]_vars

\* a reset has run on a scheduler that holds completion records
C3_Witness ==
    /\ last_op = "reset"
    /\ task_history # EmptyDict
    /\ history_file = File(task_history)

\* C4, as the code has it: a miss writes the daily-tasks file once and a hit
\* never; a reset writes it twice when the file was readable (once without
\* today's entry, once with the new bundle) and once when it was not.
C4_WritesPerOperation ==
    [][/\ last_op' = "init" =>
            file_writes' = IF StoredForToday THEN 0 ELSE 1
       /\ last_op' = "reset" =>
            file_writes' = IF daily_tasks_file.readable THEN 2 ELSE 1]_vars

\* a reset has rewritten a readable file
C4_Witness == last_op = "reset" /\ file_writes = 2

\* C4 as stated: every miss and every reset writes the file exactly once, a
\* hit never.
C4_ExactlyOneWrite ==
    /\ last_op = "init" => file_writes = IF cache_hit THEN 0 ELSE 1
    /\ last_op = "reset" => file_writes = 1

\* a list is populated with tasks or is exactly one sentinel
PopulatedOrSentinel(list) ==
    /\ list # <<>>
    /\ \A i \in DOMAIN list : startswith_party(list[i]) => Len(list) = 1

\* C5: in every bundle a construction or a reset leaves, no tier's list is
\* empty: each holds tasks or exactly the tier's sentinel.
C5_NoEmptyTierList ==
    last_op \in {"init", "reset"} =>
        LET bundle == daily_task_assignments[today_str]
        IN  /\ \A e \in EnergyLevels :
                 /\ PopulatedOrSentinel(bundle.daily_tasks[e])
                 /\ PopulatedOrSentinel(bundle.weekly_tasks[e])
            /\ PopulatedOrSentinel(bundle.biweekly_tasks)
            /\ PopulatedOrSentinel(bundle.monthly_tasks)
            /\ PopulatedOrSentinel(bundle.variety_tasks)

(***************************************************************************)
(* Recommendations against the stored bundle                               *)
(***************************************************************************)
\* what self.get_personalized_recommendations(energy_level) returns now
Recommendations(energy_level) ==
    get_personalized_recommendations(daily_task_assignments, task_history,
                                     today, current_date, energy_level)

\* the fields of the stored bundle that the recommendations for
\* energy_level show
StoredRecommendations(bundle, energy_level) ==
    [daily_tasks |-> bundle.daily_tasks[energy_level],
     weekly_tasks |-> bundle.weekly_tasks[energy_level]]
    @@ (IF energy_level # "red"
        THEN [biweekly_tasks |-> bundle.biweekly_tasks]
        ELSE EmptyDict)
    @@ (IF energy_level = "green"
        THEN [monthly_tasks |-> bundle.monthly_tasks,
              variety_tasks |-> bundle.variety_tasks,
              quarterly_focus |-> bundle.quarterly_task]
        ELSE EmptyDict)

\* C6: on a date, with no reset, a mark_task_completed call leaves every
\* field of the recommendations, for every energy level, as it was before
\* the call and equal to the stored bundle's.
C6_RecommendationsImmutable ==
    [][(last_op' = "mark" /\ today = current_date) =>
         \A e \in EnergyLevels :
            /\ Recommendations(e)' = Recommendations(e)
            /\ Recommendations(e)' =
                 StoredRecommendations(daily_task_assignments'[today_str'], e)]_vars

(***************************************************************************)
(* Urgency engine on the history and the date of every state               *)
(***************************************************************************)
\* the names the scheduler is asked about: the catalog, the weekly focus
\* and essential tasks (which have no catalog entry), whatever the history
\* holds, and a name nobody knows
TaskNames ==
    Range(KnownTasks) \cup DOMAIN task_history
      \cup {essential_tasks[d] : d \in Range(DayNames)}
      \cup {"no such task"}

NeverCompleted(task_name) ==
    \/ task_name \notin DOMAIN task_history
    \/ "last_done" \notin DOMAIN task_history[task_name]

\* C7: a task with no history record, or with a record that has no
\* last_done, has infinitely many days since its completion and is due,
\* whatever its tier and with or without a catalog entry.
C7_NeverCompletedIsDue ==
    \A t \in TaskNames :
       NeverCompleted(t) =>
          /\ get_days_since_task_completion(task_history, today, t) = Inf
          /\ is_task_due(task_history, today, t)

\* never-completed tasks of both kinds: a catalog task whose record has no
\* last_done, a quarterly task and a task without catalog entry that have
\* no record
C7_Witness ==
    /\ \E t \in DOMAIN task_history \cap DOMAIN task_metadata :
          "last_done" \notin DOMAIN task_history[t]
    /\ \E t \in DOMAIN task_metadata \ DOMAIN task_history :
          task_metadata[t].frequency = "quarterly"
    /\ \E t \in TaskNames \ (DOMAIN task_metadata \cup DOMAIN task_history) :
          is_task_due(task_history, today, t)

\* the threshold the tier of a task fixes
TierThreshold(task_name) ==
    IF task_name \notin DOMAIN task_metadata THEN 7
    ELSE CASE task_metadata[task_name].frequency = "daily" -> 3
           [] task_metadata[task_name].frequency = "weekly" -> 10
           [] task_metadata[task_name].frequency = "biweekly" -> 18
           [] task_metadata[task_name].frequency = "monthly" -> 35
           [] task_metadata[task_name].frequency = "quarterly" -> 100

PriorityWeight(task_name) ==
    IF task_name \notin DOMAIN task_metadata THEN Num(1, 1)
    ELSE CASE task_metadata[task_name].priority = "priority1" -> Num(3, 1)
           [] task_metadata[task_name].priority = "priority2" -> Num(2, 1)
           [] task_metadata[task_name].priority = "priority3" -> Num(1, 1)
           [] task_metadata[task_name].priority = "priority4" -> Num(1, 2)

\* max(0.1, days / threshold) * weight
ExpectedScore(days_since, threshold, weight) ==
    IF days_since.inf THEN Inf
    ELSE IF days_since.n * 10 > threshold
         THEN Num(days_since.n * weight.n, threshold * weight.d)
         ELSE Num(weight.n, 10 * weight.d)

\* score is what the claim says it is for these days since completion
ScoreAsClaimed(task_name, score, days_since) ==
    /\ Eq(score,
          ExpectedScore(days_since,
                        IF task_name \in DOMAIN task_metadata
                        THEN TierThreshold(task_name) ELSE 10,
                        PriorityWeight(task_name)))
    /\ Geq(score, Times(Num(1, 10), PriorityWeight(task_name)))

\* C9: the urgency score of a task is max(0.1, days / threshold) * weight,
\* with threshold 10 and weight 1.0 for a task without catalog entry, and
\* so it is never below 0.1 * weight.
C9_UrgencyScore ==
    \A t \in TaskNames :
       ScoreAsClaimed(t, get_task_urgency_score(task_history, today, t),
                      get_days_since_task_completion(task_history, today, t))

\* the floor at work: a task done today and a task whose last_done is in
\* the future score 0.1 * weight, and a task without catalog entry scores
\* days / 10
C9_Witness ==
    /\ \E t \in DOMAIN task_history \cap DOMAIN task_metadata :
          /\ Lt(get_days_since_task_completion(task_history, today, t),
                Num(0, 1))
          /\ Eq(get_task_urgency_score(task_history, today, t),
                Times(Num(1, 10), PriorityWeight(t)))
    /\ \E t \in DOMAIN task_history \ DOMAIN task_metadata :
          /\ Eq(get_days_since_task_completion(task_history, today, t),
                Num(8, 1))
          /\ Eq(get_task_urgency_score(task_history, today, t), Num(8, 10))

(***************************************************************************)
(* Order of the lists of a generated bundle                                *)
(***************************************************************************)
\* the last operation generated the bundle of self.current_date, from the
\* history and on the date of this state
JustGenerated == generator_calls = 1

UrgencyNow(task_name) == get_task_urgency_score(task_history, today, task_name)

DaysSinceNow(task_name) ==
    get_days_since_task_completion(task_history, today, task_name)

\* the urgency scores, and the days since completion, of the tasks of a list
Urgencies(list) == [i \in DOMAIN list |-> UrgencyNow(list[i])]

DaysSince(list) == [i \in DOMAIN list |-> DaysSinceNow(list[i])]

NonIncreasing(keys) ==
    \A i \in DOMAIN keys : i + 1 \in DOMAIN keys => Geq(keys[i], keys[i + 1])

\* the weekly, biweekly and variety lists and the bonus tasks of the daily
\* lists are in non-increasing order of urgency score
UrgencyOrdered(bundle) ==
    /\ \A e \in EnergyLevels :
          /\ NonIncreasing(Urgencies(bundle.weekly_tasks[e]))
          /\ NonIncreasing(Urgencies(Tail(bundle.daily_tasks[e])))
    /\ NonIncreasing(Urgencies(bundle.biweekly_tasks))
    /\ NonIncreasing(Urgencies(bundle.variety_tasks))

YearDates == {DateOf(2026, 1, 2) + 6 * k : k \in 0..60}

\* "Scoop cat litter" last done 5 days before the start date
ScenarioA(d0) == "Scoop cat litter" :> DoneOn(d0 - 5)

\* records whose last_done is no "%Y-%m-%d" date: an empty string, a date
\* written day first, a month 13, a 30th of February, a string without a
\* day and a date followed by more text; one record is well formed
Malformed(d0) ==
    LET record(s) ==
            [last_done |-> s, completion_count |-> 1,
             completion_dates |-> <<>>]
    IN  ("Wipe bathroom sink" :> record(<<>>))
        @@ ("Quick-sort mail" :> record(<<date_day(d0), date_month(d0), date_year(d0)>>))
        @@ ("Scoop cat litter" :> record(<<2026, 13, 1>>))
        @@ ("Unload dishwasher" :> record(<<2026, 2, 30>>))
        @@ ("Water houseplants" :> record(<<2026, 6>>))
        @@ ("Organize nightstand for better function" :>
              record(<<date_year(d0), date_month(d0), date_day(d0), 12>>))
        @@ [t \in {quarterly_focus[current_quarter(d0)]} |-> record(<<>>)]
        @@ ("Take out trash if full" :> DoneOn(d0))

\* the essential tasks of the seven weekdays done on the start date, no
\* other task ever
EssentialsDone(d0) ==
    [t \in {essential_tasks[d] : d \in DOMAIN essential_tasks} |-> DoneOn(d0)]

\* every known task done on the start date, but two monthly tasks and a
\* weekly one done 25 days before it
MonthlyOverdue(d0) ==
    [t \in {"Vacuum rugs", "Dust electronics", "Water houseplants"}
       |-> DoneOn(d0 - 25)]
      @@ AllDoneToday(d0)

\* every known task done on the start date, but the priority-4 tasks never
DelegatedNeverDone(d0) ==
    [t \in Range(KnownTasks)
            \ (Range(tasks.priority4["15min"])
                 \cup Range(tasks.priority4.delegate)) |-> DoneOn(d0)]

\* the known tasks completed once, the i-th of them 20 + (7 * i) mod 23
\* days before the start date, but two daily tasks never and two others
\* both 30 days before
Neglected(d0) ==
    [t \in {"Wipe down bathroom faucet", "Put shoes in closet or bin"}
       |-> DoneOn(d0 - 30)]
      @@ [t \in Range(KnownTasks) \ {"Wipe bathroom sink", "Quick-sort mail"} |->
            LET i == CHOOSE k \in DOMAIN KnownTasks : KnownTasks[k] = t
            IN  DoneOn(d0 - (20 + ((7 * i) % 23)))]

YearHistories(d0) ==
    {DelegatedNeverDone(d0), Spread(d0), Damaged(d0), Malformed(d0),
     EssentialsDone(d0) @@ ScenarioA(d0), MonthlyOverdue(d0), Neglected(d0)}

YearInit ==
    \E d0 \in YearDates : \E h \in YearHistories(d0) :
      \E c \in {construct(d0, File(h), Unreadable)} :
          /\ today = d0
          /\ current_date = c.current_date
          /\ task_history = c.task_history
          /\ daily_task_assignments = c.daily_task_assignments
          /\ history_file = File(h)
          /\ daily_tasks_file = c.daily_tasks_file
          /\ last_op = "init"
          /\ file_writes = c.writes
          /\ generator_calls = c.generated
          /\ cache_hit = c.hit
          /\ n_events = 0
          /\ airtable_records = <<>>
          /\ update_call = NoCall

YearNext ==
    \/ AdvanceDay
    \/ Construct

YearSpec == YearInit /\ [][YearNext]_vars

(***************************************************************************)
(* The urgency label the app shows next to a task.                         *)
(***************************************************************************)
urgency_label(urgency_score) ==
    IF Gt(urgency_score, Num(3, 1)) THEN "HIGH"
    ELSE IF Gt(urgency_score, Num(3, 2)) THEN "MEDIUM"
    ELSE "LOW"

\* "Scoop cat litter" was last done 5 days ago
ScoopedFiveDaysAgo ==
    /\ "Scoop cat litter" \in DOMAIN task_history
    /\ Eq(get_days_since_task_completion(task_history, today,
                                         "Scoop cat litter"), Num(5, 1))

\* C11: "Scoop cat litter" is a daily task (threshold 3, weight 3.0), and
\* when it was last done 5 days ago it is due, has the urgency score
\* (5 / 3) * 3.0 = 5.0 and is labelled HIGH.
C11_ScenarioA ==
    ScoopedFiveDaysAgo =>
        /\ task_metadata["Scoop cat litter"].frequency = "daily"
        /\ task_metadata["Scoop cat litter"].threshold_days = 3
        /\ task_metadata["Scoop cat litter"].priority_multiplier
              = [n |-> 3, d |-> 1]
        /\ is_task_due(task_history, today, "Scoop cat litter")
        /\ Eq(UrgencyNow("Scoop cat litter"), Num(5, 1))
        /\ urgency_label(UrgencyNow("Scoop cat litter")) = "HIGH"

\* what the code makes of the scenario: a weekly task (threshold 10), not
\* due, with score (5 / 10) * 3.0 = 1.5, which is not above 1.5: LOW
C11_ScenarioAInCode ==
    ScoopedFiveDaysAgo =>
        /\ task_metadata["Scoop cat litter"].frequency = "weekly"
        /\ task_metadata["Scoop cat litter"].threshold_days = 10
        /\ task_metadata["Scoop cat litter"].priority_multiplier
              = [n |-> 3, d |-> 1]
        /\ ~is_task_due(task_history, today, "Scoop cat litter")
        /\ Eq(UrgencyNow("Scoop cat litter"), Num(3, 2))
        /\ urgency_label(UrgencyNow("Scoop cat litter")) = "LOW"

\* the days of a month of the Gregorian calendar
MonthLength(y, m) ==
    CASE m \in {1, 3, 5, 7, 8, 10, 12} -> 31
      [] m \in {4, 6, 9, 11} -> 30
      [] m = 2 -> IF y % 4 = 0 /\ (y % 100 # 0 \/ y % 400 = 0) THEN 29 ELSE 28

\* s is the "%Y-%m-%d" form of a date: a year, a month and a day of that
\* month, and nothing else
WellFormedDate(s) ==
    /\ Len(s) = 3
    /\ s[1] \in BaseYear..LastYear
    /\ s[2] \in 1..12
    /\ s[3] \in 1..MonthLength(s[1], s[2])

\* the stored records whose last_done is not the form of any date
MalformedRecords ==
    {t \in DOMAIN task_history :
        /\ "last_done" \in DOMAIN task_history[t]
        /\ ~WellFormedDate(task_history[t].last_done)}

\* C12: for every stored record whose last_done is malformed (an empty
\* string, a wrong format, text that is no date) the days since completion
\* are +infinity, as for a task never done, and the task is due.
C12_MalformedIsNeverDone ==
    \A t \in MalformedRecords :
        /\ get_days_since_task_completion(task_history, today, t) = Inf
        /\ get_days_since_task_completion(task_history, today, t)
             = get_days_since_task_completion(EmptyDict, today, t)
        /\ ~startswith_party(t) => is_task_due(task_history, today, t)

\* a history with an empty last_done, a day-first date, a month 13, a 30th
\* of February, a missing day and trailing text, all read as never done,
\* next to a well-formed record of today, which is not due
C12_Witness ==
    /\ \A s \in {<<>>, <<2026, 13, 1>>, <<2026, 2, 30>>, <<2026, 6>>,
                 <<date_day(today), date_month(today), date_year(today)>>,
                 <<date_year(today), date_month(today), date_day(today), 12>>} :
          \E t \in MalformedRecords :
             /\ task_history[t].last_done = s
             /\ get_days_since_task_completion(task_history, today, t) = Inf
             /\ is_task_due(task_history, today, t)
    /\ \E t \in DOMAIN task_history \ MalformedRecords :
          ~is_task_due(task_history, today, t)

\* the names of the priority-1 catalog
Priority1Catalog ==
    Range(tasks.priority1["2min"]) \cup Range(tasks.priority1["5min"])
        \cup Range(tasks.priority1["15min"])

\* the essential task of the weekday of this state
EssentialToday == essential_tasks[strftime_A(today)]

NoTaskTwice(list) ==
    \A i, j \in DOMAIN list : list[i] = list[j] => i = j

\* list is the essential task followed by at most bonus further tasks, each
\* a due priority-1 catalog task other than the essential one, none twice
DailyListAsClaimed(list, bonus) ==
    /\ Len(list) >= 1
    /\ list[1] = EssentialToday
    /\ Len(list) <= 1 + bonus
    /\ \A i \in 2..Len(list) :
          /\ list[i] \in Priority1Catalog
          /\ list[i] # EssentialToday
          /\ is_task_due(task_history, today, list[i])
    /\ NoTaskTwice(list)

\* C13: on every weekday, with every history and for every energy level,
\* the generated daily list starts with the weekday's essential task,
\* due or not, followed by at most 2 (red), 4 (yellow) or 8 (green) further
\* tasks, each a due priority-1 catalog task other than the essential task,
\* and no task is in the list twice.
C13_DailyTier ==
    JustGenerated =>
        LET daily == daily_task_assignments[today_str].daily_tasks
        IN  /\ DailyListAsClaimed(daily["red"], 2)
            /\ DailyListAsClaimed(daily["yellow"], 4)
            /\ DailyListAsClaimed(daily["green"], 8)

\* a generated bundle on a day whose essential task is a priority-1 catalog
\* task that is not due and still leads the three lists, which carry 2, 4
\* and 8 further tasks
C13_Witness ==
    /\ JustGenerated
    /\ EssentialToday \in Priority1Catalog
    /\ ~is_task_due(task_history, today, EssentialToday)
    /\ LET daily == daily_task_assignments[today_str].daily_tasks
       IN  /\ daily["red"][1] = EssentialToday
           /\ Len(daily["red"]) = 3
           /\ Len(daily["yellow"]) = 5
           /\ Len(daily["green"]) = 9

\* the due ones among the three tasks of the focus of this state's week
DueFocusTasks ==
    LET focus == focus_rotation[((isocalendar_week(today) - 1) % 4) + 1]
    IN  {t \in Range(weekly_focus_lists[focus]) :
            is_task_due(task_history, today, t)}

Min(a, b) == IF a <= b THEN a ELSE b

\* list holds the k most urgent tasks of the set, or all of them when the
\* set has fewer: no task twice, and none left out that is more urgent
\* than one taken
MostUrgentOf(list, set, k) ==
    /\ Len(list) = Min(k, Cardinality(set))
    /\ Range(list) \subseteq set
    /\ NoTaskTwice(list)
    /\ \A t \in set \ Range(list) : \A u \in Range(list) :
          Geq(UrgencyNow(u), UrgencyNow(t))

\* C14: the weekly-focus lists hold only due tasks among the three fixed
\* tasks of the current focus: the most urgent one (red), the most urgent
\* two, or fewer (yellow), all the due ones (green); when none of the three
\* is due each list is exactly the weekly sentinel.
C14_WeeklyFocusTier ==
    JustGenerated =>
        LET weekly == daily_task_assignments[today_str].weekly_tasks
        IN  IF DueFocusTasks = {}
            THEN \A e \in EnergyLevels :
                    weekly[e] = <<"(party) No weekly focus tasks needed today!">>
            ELSE /\ MostUrgentOf(weekly["red"], DueFocusTasks, 1)
                 /\ MostUrgentOf(weekly["yellow"], DueFocusTasks, 2)
                 /\ MostUrgentOf(weekly["green"], DueFocusTasks, 3)

\* a generated bundle in a week where all three tasks of the focus are due
\* with different scores: red holds the first, yellow two, green all three
C14_Witness ==
    /\ JustGenerated
    /\ Cardinality(DueFocusTasks) = 3
    /\ LET weekly == daily_task_assignments[today_str].weekly_tasks
       IN  /\ Len(weekly["red"]) = 1
           /\ Len(weekly["yellow"]) = 2
           /\ Len(weekly["green"]) = 3
           /\ weekly["yellow"][1] = weekly["red"][1]
           /\ \A t \in DueFocusTasks \ {weekly["red"][1]} :
                 Gt(UrgencyNow(weekly["red"][1]), UrgencyNow(t))
           /\ \A t \in DueFocusTasks \ Range(weekly["yellow"]) :
                 Gt(UrgencyNow(weekly["yellow"][2]), UrgencyNow(t))

\* the fields of the recommendations that hold tasks
TaskFields ==
    {"daily_tasks", "weekly_tasks", "biweekly_tasks", "monthly_tasks",
     "variety_tasks", "quarterly_focus"}

\* C15: the recommendations carry daily_tasks and weekly_tasks at every
\* energy level, biweekly_tasks at yellow and green but not at red, and
\* monthly_tasks, variety_tasks and quarterly_focus at green only.
C15_FieldsByEnergyLevel ==
    /\ DOMAIN Recommendations("red") \cap TaskFields
          = {"daily_tasks", "weekly_tasks"}
    /\ DOMAIN Recommendations("yellow") \cap TaskFields
          = {"daily_tasks", "weekly_tasks", "biweekly_tasks"}
    /\ DOMAIN Recommendations("green") \cap TaskFields = TaskFields

\* a state with due biweekly, monthly and variety tasks and a due quarterly
\* task: yellow and green show the biweekly tasks, red has no such field,
\* and only green shows the other three
C15_Witness ==
    /\ ~startswith_party(Recommendations("yellow").biweekly_tasks[1])
    /\ Recommendations("green").biweekly_tasks
          = Recommendations("yellow").biweekly_tasks
    /\ Recommendations("green").monthly_tasks # <<>>
    /\ Recommendations("green").variety_tasks # <<>>
    /\ ~startswith_party(Recommendations("green").quarterly_focus)
    /\ "biweekly_tasks" \notin DOMAIN Recommendations("red")
    /\ \A f \in {"monthly_tasks", "variety_tasks", "quarterly_focus"} :
          f \notin DOMAIN Recommendations("red")
             \cup DOMAIN Recommendations("yellow")

\* the pair-list of this state's ISO week: the first in even weeks, the
\* second in odd weeks
SelectedPairList ==
    IF isocalendar_week(today) % 2 = 0 THEN biweekly_tasks.weeks1_2
    ELSE biweekly_tasks.weeks3_4

\* every task of the selected pair-list was completed fewer than 18 days ago
PairListDoneRecently ==
    \A t \in Range(SelectedPairList) : Lt(DaysSinceNow(t), Num(18, 1))

FocusOfWeek(w) ==
    CASE (w - 1) % 4 = 0 -> "Kitchen"
      [] (w - 1) % 4 = 1 -> "Bathroom"
      [] (w - 1) % 4 = 2 -> "Living Area"
      [] (w - 1) % 4 = 3 -> "Bedroom/Pet"

\* C17: in ISO week w, for every w in 1..53, the focus of the scheduler is
\* entry (w - 1) mod 4 of [Kitchen, Bathroom, Living Area, Bedroom/Pet], in
\* week 15 "Living Area", and the weekly lists it generates hold tasks of
\* that focus only.
C17_FocusRotation ==
    LET w == isocalendar_week(current_date)
    IN  /\ w \in 1..53
        /\ current_focus(current_date) = FocusOfWeek(w)
        /\ w = 15 => current_focus(current_date) = "Living Area"
        /\ JustGenerated =>
              \A e \in EnergyLevels :
                 Range(daily_task_assignments[today_str].weekly_tasks[e])
                   \subseteq Range(weekly_focus_lists[FocusOfWeek(w)])
                               \cup {"(party) No weekly focus tasks needed today!"}

\* a scheduler constructed in ISO week 15 whose weekly list holds the three
\* tasks of the living area
C17_Witness ==
    /\ JustGenerated
    /\ isocalendar_week(current_date) = 15
    /\ current_focus(current_date) = "Living Area"
    /\ Range(daily_task_assignments[today_str].weekly_tasks["green"])
         = {"Quick-tidy living room sitting area",
            "Gather and put away items that belong in another room",
            "Clear and wipe dining/coffee table completely"}

\* the quarter of a month, month by month
QuarterOfMonth(m) ==
    CASE m \in {1, 2, 3} -> 1
      [] m \in {4, 5, 6} -> 2
      [] m \in {7, 8, 9} -> 3
      [] m \in {10, 11, 12} -> 4

\* the deep-clean task of a quarter
DeepCleanOfQuarter(q) ==
    CASE q = 1 -> "Bathroom deep clean (grout, fans, etc.)"
      [] q = 2 -> "Kitchen deep clean (inside appliances, etc.)"
      [] q = 3 -> "Living areas deep clean (under furniture, etc.)"
      [] q = 4 -> "Bedroom deep clean (mattress, closets, etc.)"

\* the quarterly entry as claimed: the deep-clean task of the quarter of
\* the scheduler's date when 100 days or more have passed since it was
\* done, the quarterly sentinel otherwise
QuarterlyAsClaimed ==
    LET task == DeepCleanOfQuarter(QuarterOfMonth(date_month(current_date)))
    IN  IF Geq(DaysSinceNow(task), Num(100, 1)) THEN task
        ELSE "(party) No quarterly focus needed today!"

Loads == last_op' = "init"

\* the step writes the history file
WritesHistory == history_file' # history_file /\ history_file'.readable

\* every task with a record in the history file still has one after the step
StoredHistoryKept ==
    \A t \in DOMAIN history_file.content : t \in DOMAIN history_file'.content

\* C19: a failure of a backing store is surfaced, not masked: when the
\* history store or the bundle store cannot be read (missing, unreadable,
\* corrupt), the load reports the failure and does not go on with an empty
\* history or an empty bundle map, and after a failed read of the history no
\* write replaces the history that was stored.
C19_StoreFailureSurfaced ==
    [][/\ Loads /\ ~history_file.readable => task_history' # EmptyDict
       /\ Loads /\ ~daily_tasks_file.readable =>
             DOMAIN daily_task_assignments' # {strftime(current_date')}
       /\ WritesHistory /\ ~history_file.readable => StoredHistoryKept]_vars

(***************************************************************************)
(* Completions                                                             *)
(***************************************************************************)
\* the count and the log of a record, 0 and empty where it has none
CountOf(history, t) ==
    IF t \in DOMAIN history /\ "completion_count" \in DOMAIN history[t]
    THEN history[t].completion_count ELSE 0

LogOf(history, t) ==
    IF t \in DOMAIN history /\ "completion_dates" \in DOMAIN history[t]
    THEN history[t].completion_dates ELSE <<>>

\* the step completes task t with the note on the day written date_str: the
\* count of t goes up by one, one entry {date, note} is added at the end of
\* its log, its last_done is date_str, the record exists, and the records
\* of the other tasks are as they were
Completes(t, note, date_str) ==
    /\ t \in DOMAIN task_history'
    /\ task_history'[t].completion_count = CountOf(task_history, t) + 1
    /\ task_history'[t].completion_dates
         = Append(LogOf(task_history, t), [date |-> date_str, notes |-> note])
    /\ task_history'[t].last_done = date_str
    /\ DOMAIN task_history' = DOMAIN task_history \cup {t}
    /\ \A u \in DOMAIN task_history \ {t} : task_history'[u] = task_history[u]

\* C20: mark_task_completed(task, note) raises the task's completion_count
\* by exactly 1, appends exactly one {date, note} entry to the end of its
\* log, sets its last_done to today, creates the record when there was
\* none, and leaves the records of the other tasks unchanged.
C20_MarkCompleted ==
    [][last_op' = "mark" =>
         \E call \in MarkCalls(current_date) :
             Completes(call[1], call[2], strftime(today))]_vars

\* the same with the date of the scheduler's construction in place of today
C20_MarkCompletedOnCurrentDate ==
    [][last_op' = "mark" =>
         \E call \in MarkCalls(current_date) :
             Completes(call[1], call[2], strftime(current_date))]_vars

(***************************************************************************)
(* The due filter of the generated lists                                   *)
(***************************************************************************)
\* every task of the list that is no sentinel is due now
AllDue(list) ==
    \A t \in Range(list) :
        startswith_party(t) \/ is_task_due(task_history, today, t)

\* the weekly, biweekly and variety lists of the bundle hold due tasks
\* only, and so do the daily lists after their first entry
FilteredListsDue(bundle) ==
    /\ \A e \in EnergyLevels :
          /\ AllDue(bundle.weekly_tasks[e])
          /\ AllDue(Tail(bundle.daily_tasks[e]))
    /\ AllDue(bundle.biweekly_tasks)
    /\ AllDue(bundle.variety_tasks)

\* C21, as the code has it: in a generated bundle every task of the weekly,
\* biweekly and variety lists that is no sentinel, and every daily task
\* after the weekday's essential task, is due at generation time; every
\* task of the monthly list that is no sentinel was last done 20 days ago
\* or more, or never, whether or not it is due.
C21_DueFilter ==
    JustGenerated =>
        /\ FilteredListsDue(daily_task_assignments[today_str])
        /\ \A t \in Range(daily_task_assignments[today_str].monthly_tasks) :
              startswith_party(t) \/ Geq(DaysSinceNow(t), Num(20, 1))

\* a generated bundle whose variety list holds a due task and whose monthly
\* list holds that task next to one done 20 days ago or more that is not due
C21_Witness ==
    /\ JustGenerated
    /\ LET bundle == daily_task_assignments[today_str]
       IN  /\ \E t \in Range(bundle.variety_tasks) \cap Range(bundle.monthly_tasks) :
                 is_task_due(task_history, today, t)
           /\ \E t \in Range(bundle.monthly_tasks) :
                 /\ ~startswith_party(t)
                 /\ Geq(DaysSinceNow(t), Num(20, 1))
                 /\ ~is_task_due(task_history, today, t)

\* C21 as stated: in a generated bundle every task of the weekly, biweekly,
\* monthly and variety lists that is no sentinel, and every daily task
\* other than the weekday's essential task, is due at generation time.
C21_AllListedTasksDue ==
    JustGenerated =>
        /\ FilteredListsDue(daily_task_assignments[today_str])
        /\ AllDue(daily_task_assignments[today_str].monthly_tasks)

(***************************************************************************)
(* The monthly tier                                                        *)
(***************************************************************************)
\* the tasks of the set that were not completed within the last 20 days
Qualifying(set) == {t \in set : Geq(DaysSinceNow(t), Num(20, 1))}

\* the names of the priority-1, priority-2 and priority-3 lists
Priority123Catalog ==
    UNION {Range(tasks[p][c]) :
             p \in {"priority1", "priority2", "priority3"},
             c \in {"2min", "5min", "15min"}}

\* the names of the whole catalog, the priority-4 lists included
WholeCatalog ==
    Priority123Catalog
      \cup Range(tasks.priority4["15min"]) \cup Range(tasks.priority4.delegate)

\* the list is the monthly sentinel when no task of the set qualifies, and
\* otherwise min(5, n) different ones of its n qualifying tasks
MonthlyListOver(list, set) ==
    /\ Len(list) <= 5
    /\ IF Qualifying(set) = {}
       THEN list = <<"(party) No monthly tasks needed today!">>
       ELSE /\ Len(list) = Min(5, Cardinality(Qualifying(set)))
            /\ Range(list) \subseteq Qualifying(set)
            /\ NoTaskTwice(list)

\* C22, as the code has it: a freshly generated monthly list holds at most
\* 5 tasks, none of them completed within the last 20 days; when n >= 1
\* tasks of the priority-1, priority-2 and priority-3 lists qualify it
\* holds exactly min(5, n) of them, and it is the monthly sentinel exactly
\* when none of those qualifies, whatever the priority-4 tasks do.
C22_MonthlyTier ==
    JustGenerated =>
        MonthlyListOver(daily_task_assignments[today_str].monthly_tasks,
                        Priority123Catalog)

\* a generated bundle whose monthly list holds the three tasks that
\* qualify and no more, while most of the catalog was done within 20 days
C22_Witness ==
    /\ JustGenerated
    /\ Cardinality(Qualifying(Priority123Catalog)) = 3
    /\ Range(daily_task_assignments[today_str].monthly_tasks)
         = Qualifying(Priority123Catalog)
    /\ Len(daily_task_assignments[today_str].monthly_tasks) = 3

\* C22 as stated: a freshly generated monthly list holds at most 5 tasks,
\* none of them completed within the last 20 days; when n >= 1 catalog
\* tasks qualify it holds exactly min(5, n) of them, and it is the monthly
\* sentinel only when no catalog task qualifies.
C22_MonthlyTierCatalogWide ==
    JustGenerated =>
        MonthlyListOver(daily_task_assignments[today_str].monthly_tasks,
                        WholeCatalog)

(***************************************************************************)
(* The variety tier                                                        *)
(***************************************************************************)
\* the names of the priority-2 and priority-3 lists
Priority23Catalog ==
    UNION {Range(tasks[p][c]) :
             p \in {"priority2", "priority3"}, c \in {"2min", "5min", "15min"}}

\* the due tasks of the priority-2 and priority-3 lists
DueVarietyCandidates ==
    {t \in Priority23Catalog : is_task_due(task_history, today, t)}

IndexIn(source, t) == CHOOSE k \in DOMAIN source : source[k] = t

\* tasks of the list with equal urgency scores stand in the order they have
\* in the source
TiesInSourceOrder(list, source) ==
    \A i, j \in DOMAIN list :
        (i < j /\ Eq(UrgencyNow(list[i]), UrgencyNow(list[j]))) =>
            IndexIn(source, list[i]) < IndexIn(source, list[j])

\* the tasks of a list without its sentinel
RealTasks(list) == Filter(list, {t \in Range(list) : ~startswith_party(t)})

priority_weight(task_name) ==
    IF task_name \in DOMAIN task_metadata
    THEN Num(task_metadata[task_name].priority_multiplier.n,
             task_metadata[task_name].priority_multiplier.d)
    ELSE Num(1, 1)

\* C25: for every real task, with or without catalog entry, and every
\* history, the task is due exactly when its urgency score is at least its
\* priority weight, that is when the days since its completion divided by
\* the threshold of the urgency score reach 1.
C25_DueAgreesWithUrgency ==
    \A t \in TaskNames :
       is_task_due(task_history, today, t) <=>
          Geq(get_task_urgency_score(task_history, today, t),
              priority_weight(t))

\* the same agreement for the tasks that have a catalog entry
C25_CatalogDueAgreesWithUrgency ==
    \A t \in TaskNames \cap DOMAIN task_metadata :
       is_task_due(task_history, today, t) <=>
          Geq(get_task_urgency_score(task_history, today, t),
              priority_weight(t))

(***************************************************************************)
(* Completions recorded from an empty history                              *)
(***************************************************************************)
\* no history file yet: the scheduler starts with an empty history, on any
\* of the dates of the year
MarkInit ==
    \E d0 \in YearDates :
      \E c \in {construct(d0, File(EmptyDict), Unreadable)} :
          /\ today = d0
          /\ current_date = c.current_date
          /\ task_history = c.task_history
          /\ daily_task_assignments = c.daily_task_assignments
          /\ history_file = File(EmptyDict)
          /\ daily_tasks_file = c.daily_tasks_file
          /\ last_op = "init"
          /\ file_writes = c.writes
          /\ generator_calls = c.generated
          /\ cache_hit = c.hit
          /\ n_events = 0
          /\ airtable_records = <<>>
          /\ update_call = NoCall

\* completions, on the days the app is run on
MarkNext ==
    \/ MarkCompleted
    \/ AdvanceDay
    \/ Construct

MarkSpec == MarkInit /\ [][MarkNext]_vars

\* every record counts as many completions as its log holds, at least one,
\* and its last_done is the date of the last entry of its log
RecordsMatchLogs ==
    \A t \in DOMAIN task_history :
       LET record == task_history[t]
       IN  /\ DOMAIN record = {"last_done", "completion_count", "completion_dates"}
           /\ record.completion_count = Len(record.completion_dates)
           /\ record.completion_count >= 1
           /\ record.last_done
                = record.completion_dates[Len(record.completion_dates)].date

\* no record goes away and no count goes down
RecordsKept ==
    \A t \in DOMAIN task_history :
       /\ t \in DOMAIN task_history'
       /\ CountOf(task_history', t) >= CountOf(task_history, t)

\* C26: starting from an empty history, after any sequence of
\* mark_task_completed calls every record has completion_count equal to the
\* length of its log and at least 1, and last_done equal to the date of the
\* last log entry; no record is ever removed and no count ever decreases.
C26_RecordsFromEmptyHistory ==
    /\ []RecordsMatchLogs
    /\ [][RecordsKept]_vars

\* a task has just been marked for the second time
C26_Witness ==
    /\ last_op = "mark"
    /\ \E t \in DOMAIN task_history :
          /\ task_history[t].completion_count = 2
          /\ Len(task_history[t].completion_dates) = 2

(***************************************************************************)
(* The lists of the three energy levels                                    *)
(***************************************************************************)
\* list a is the beginning of list b
IsPrefixOf(a, b) == Len(a) <= Len(b) /\ a = SubSeq(b, 1, Len(a))

\* C27: in every bundle the red daily list is a prefix of the yellow one,
\* which is a prefix of the green one, and the same holds for the
\* weekly-focus lists of the three energy levels.
C27_EnergyLevelsNested ==
    \A d \in DOMAIN daily_task_assignments :
       LET bundle == daily_task_assignments[d]
       IN  /\ IsPrefixOf(bundle.daily_tasks["red"], bundle.daily_tasks["yellow"])
           /\ IsPrefixOf(bundle.daily_tasks["yellow"], bundle.daily_tasks["green"])
           /\ IsPrefixOf(bundle.weekly_tasks["red"], bundle.weekly_tasks["yellow"])
           /\ IsPrefixOf(bundle.weekly_tasks["yellow"], bundle.weekly_tasks["green"])

\* a generated bundle whose daily lists hold 3, 5 and 9 tasks and whose
\* weekly-focus lists hold 1, 2 and 3 tasks with different urgency scores
C27_Witness ==
    /\ JustGenerated
    /\ LET bundle == daily_task_assignments[today_str]
       IN  /\ Len(bundle.daily_tasks["red"]) = 3
           /\ Len(bundle.daily_tasks["yellow"]) = 5
           /\ Len(bundle.daily_tasks["green"]) = 9
           /\ Len(bundle.weekly_tasks["red"]) = 1
           /\ Len(bundle.weekly_tasks["yellow"]) = 2
           /\ Len(bundle.weekly_tasks["green"]) = 3
           /\ ~Eq(UrgencyNow(bundle.weekly_tasks["green"][1]),
                  UrgencyNow(bundle.weekly_tasks["green"][3]))

(***************************************************************************)
(* Bundles of the other dates in the daily-tasks file                      *)
(***************************************************************************)
\* the step leaves the file readable, with the bundles of all dates other
\* than date_str as they were, and with no new date other than date_str
OtherDatesKept(date_str) ==
    /\ daily_tasks_file'.readable
    /\ \A d \in DOMAIN daily_tasks_file.content \ {date_str} :
          /\ d \in DOMAIN daily_tasks_file'.content
          /\ daily_tasks_file'.content[d] = daily_tasks_file.content[d]
    /\ DOMAIN daily_tasks_file'.content
         \subseteq DOMAIN daily_tasks_file.content \cup {date_str}

\* C28: when the daily-tasks file is readable, a construction
\* (get_or_create for the scheduler's date) and reset_todays_tasks add,
\* replace or remove only the entry of the scheduler's date; the stored
\* bundle of every other date is the same after the call as before it.
C28_OtherDatesPreserved ==
    [][(last_op' \in {"init", "reset"} /\ daily_tasks_file.readable)
          => OtherDatesKept(strftime(current_date'))]_vars

\* a reset has just replaced the bundle of its date in a file that also
\* holds the bundle of another date
C28_Witness ==
    /\ last_op = "reset"
    /\ generator_calls = 1
    /\ daily_tasks_file.readable
    /\ \E d \in DOMAIN daily_tasks_file.content : d # today_str

(***************************************************************************)
(* Days since a completion, read directly after it                         *)
(***************************************************************************)
\* the task the step has completed
JustMarked(t) ==
    /\ last_op' = "mark"
    /\ t \in DOMAIN task_history'
    /\ CountOf(task_history', t) = CountOf(task_history, t) + 1

\* C29: immediately after mark_task_completed(task),
\* get_days_since_task_completion(task) returns 0 and is_task_due(task) is
\* false, in every reachable state, also when the calendar date has
\* advanced since the scheduler was constructed.
C29_MarkedTaskDoneToday ==
    [][\A t \in TaskNames' :
          JustMarked(t) =>
             /\ get_days_since_task_completion(task_history', today', t)
                  = Num(0, 1)
             /\ ~is_task_due(task_history', today', t)]_vars

\* what the code gives instead: the days that have passed since the
\* scheduler was constructed
C29_MarkedTaskDoneOnCurrentDate ==
    [][\A t \in TaskNames' :
          JustMarked(t) =>
             get_days_since_task_completion(task_history', today', t)
               = Num(today' - current_date', 1)]_vars

(***************************************************************************)
(* Airtable history adapter: get_task_history and update_task_history      *)
(***************************************************************************)
Usernames == {"alex", "sam"}

AirtableTasks == {"Scoop cat litter", "Wipe bathroom sink"}

\* what a request to Airtable may come to
RequestOutcomes == {"ok", "failed"}

\* get_task_history (lines 35-117): {} when the request fails or its
\* status is not 200, else one entry per task name of the user's rows, a
\* later row of the same task replacing an earlier one; record_id is the
\* position of the row in the table
get_task_history(records, username, outcome) ==
    IF outcome = "failed" THEN EmptyDict
    ELSE LET names == {records[i].task_name :
                         i \in {k \in DOMAIN records :
                                  records[k].username = username}}
         IN  [t \in names |->
                LET id == CHOOSE i \in DOMAIN records :
                             /\ records[i].username = username
                             /\ records[i].task_name = t
                             /\ \A k \in DOMAIN records :
                                   (records[k].username = username
                                      /\ records[k].task_name = t) => k <= i
                IN  [completion_count |-> records[id].completion_count,
                     last_done |-> records[id].last_done,
                     record_id |-> id,
                     completion_dates |-> records[id].completion_dates]]

\* update_task_history (lines 119-222): the rows it leaves and the value it
\* returns, from what its read and its write came to.  A known task is
\* patched in its row, an unknown one gets a new row with count 1.
update_task_history(records, now, username, task_name, notes, read, write) ==
    LET history == get_task_history(records, username, read)
        entry == [date |-> strftime(now), notes |-> notes]
    IN  IF write = "failed" THEN [records |-> records, returned |-> FALSE]
        ELSE IF task_name \in DOMAIN history
        THEN LET old == history[task_name]
             IN  [records |->
                    [records EXCEPT ![old.record_id] =
                       [@ EXCEPT !.completion_count = old.completion_count + 1,
                                 !.last_done = strftime(now),
                                 !.completion_dates =
                                     Append(old.completion_dates, entry)]],
                  returned |-> TRUE]
        ELSE [records |->
                Append(records,
                       [username |-> username, task_name |-> task_name,
                        completion_count |-> 1, last_done |-> strftime(now),
                        completion_dates |-> <<entry>>]),
              returned |-> TRUE]

\* one update_task_history call
UpdateTaskHistory ==
    /\ n_events < MaxEvents
    /\ \E u \in Usernames, t \in AirtableTasks, read, write \in RequestOutcomes :
         \E r \in {update_task_history(airtable_records, today, u, t, "",
                                        read, write)} :
             /\ airtable_records' = r.records
             /\ update_call' = [username |-> u, task_name |-> t,
                                read |-> read, returned |-> r.returned]
    /\ n_events' = n_events + 1
    /\ last_op' = "update"
    /\ file_writes' = 0
    /\ generator_calls' = 0
    /\ cache_hit' = FALSE
    /\ UNCHANGED <<today, current_date, task_history, daily_task_assignments,
                   history_file, daily_tasks_file>>

AirtableNext ==
    \/ UpdateTaskHistory
    \/ AdvanceDay

AirtableSpec == Init /\ [][AirtableNext]_vars

\* the rows of a (user, task)
RowsOf(records, u, t) ==
    {i \in DOMAIN records :
       records[i].username = u /\ records[i].task_name = t}

\* the completion_count the table holds for a (user, task): the one
\* get_task_history reads, 0 without a row
StoredCount(records, u, t) ==
    IF t \in DOMAIN get_task_history(records, u, "ok")
    THEN get_task_history(records, u, "ok")[t].completion_count
    ELSE 0

\* C30: over any sequence of update_task_history calls for one (user,
\* task), also when the history read of a call fails or returns nothing,
\* the stored completion_count of the task never decreases, each call that
\* returns true raises it by exactly 1, and there is at most one row per
\* (user, task).
C30_AirtableCountMonotone ==
    /\ [][\A u \in Usernames, t \in AirtableTasks :
             StoredCount(airtable_records', u, t)
               >= StoredCount(airtable_records, u, t)]_vars
    /\ [][(last_op' = "update" /\ update_call'.returned) =>
             StoredCount(airtable_records', update_call'.username,
                         update_call'.task_name)
               = StoredCount(airtable_records, update_call'.username,
                             update_call'.task_name) + 1]_vars
    /\ [](\A u \in Usernames, t \in AirtableTasks :
             Cardinality(RowsOf(airtable_records, u, t)) <= 1)

\* no (user, task) has two rows
OneRowEach(records) ==
    \A u \in Usernames, t \in AirtableTasks :
       Cardinality(RowsOf(records, u, t)) <= 1

\* what the code gives: a call that returns true raises the count by 1 and
\* adds no second row when its history read succeeded and the table had no
\* second row before
C30_AirtableCountWhenRead ==
    [][(last_op' = "update" /\ update_call'.returned
          /\ update_call'.read = "ok" /\ OneRowEach(airtable_records))
         => /\ StoredCount(airtable_records', update_call'.username,
                           update_call'.task_name)
                 = StoredCount(airtable_records, update_call'.username,
                               update_call'.task_name) + 1
            /\ OneRowEach(airtable_records')]_vars

====
